---- MODULE Spec2Model ----
(***************************************************************************)
(* Model of src/src/bellman_ford.rs and src/src/dijkstra.rs: the Graph     *)
(* (nodes: HashMap<i32, Node>, edges: HashMap<i32, Vec<Edge>>), its two    *)
(* insertion operations, and the two distance queries bellman_ford and     *)
(* kkomatsu_dijkstra.  The two files define the same Graph, add_node and   *)
(* add_edge line for line; the model holds one copy of it.                 *)
(*                                                                         *)
(* Integers are i32.  TLC's own integers are 32 bits wide too, so every    *)
(* sum that may leave the range is decided before it is computed.          *)
(***************************************************************************)
EXTENDS Integers, Sequences, FiniteSets, TLC

\* ---------------------------------------------------------------- bounds
\* identifiers are 1..MaxId
MaxId == 3
\* number of add_edge calls on one graph
MaxEdges == 2
\* iterations of the `while let Some(..) = heap.pop()` loop the model follows
MaxPops == 12
\* coordinates of a Node are 0..MaxCoord
MaxCoord == 1

\* ------------------------------------------------------------- constants
I32Max == 2147483647
I32Min == (-I32Max) - 1

Ids == 1..MaxId
Coords == 0..MaxCoord
Weights == {I32Min, 0, 1, I32Max}

VARIABLES
    nodes,            \* Graph.nodes: id -> Node
    edges,            \* Graph.edges: id -> sequence of Edge
    overflow_checks,  \* build profile: TRUE = `+` panics on overflow, FALSE = wraps
    pc,               \* "idle" | "running" | "returned" | "panicked"
    alg,              \* "none" | "bellman_ford" | "kkomatsu_dijkstra"
    from_node_id,
    to_node_id,
    distances,        \* local HashMap<i32, i32> of the running query
    keys,             \* the order self.nodes.keys() yields (bellman_ford)
    pass,             \* outer loop counter of bellman_ford
    pos,              \* position in the pass: index of the next (node, edge) visited
    heap,             \* local BinaryHeap<State> of kkomatsu_dijkstra
    pops,             \* loop iterations of kkomatsu_dijkstra so far
    walk,             \* history: for each recorded distance, the edges that produced it
    result            \* value returned by the last query

vars == <<nodes, edges, overflow_checks, pc, alg, from_node_id, to_node_id,
          distances, keys, pass, pos, heap, pops, walk, result>>

locals == <<distances, keys, pass, pos, heap, pops, walk>>

\* ------------------------------------------------------------------ data
Node(id, x, y) == [id |-> id, x |-> x, y |-> y]
Edge(a, b, w) == [node_a_id |-> a, node_b_id |-> b, weight |-> w]
State(cost, position) == [cost |-> cost, position |-> position]

EmptyMap == [k \in {} |-> 0]

\* HashMap::insert
MapInsert(m, k, v) == [x \in (DOMAIN m) \cup {k} |-> IF x = k THEN v ELSE m[x]]

\* HashMap::get(..).unwrap_or(d)
MapGetOr(m, k, d) == IF k \in DOMAIN m THEN m[k] ELSE d

\* HashMap::entry(k).or_default().push(e)
EntryPush(m, k, e) ==
    IF k \in DOMAIN m THEN [m EXCEPT ![k] = Append(@, e)]
    ELSE MapInsert(m, k, <<e>>)

\* ------------------------------------------------------------ i32 arithmetic
InI32(v) == I32Min <= v /\ v <= I32Max

\* a + b leaves the i32 range (a, b in range); decided without computing a + b
Overflows(a, b) ==
    \/ b > 0 /\ a > I32Max - b
    \/ b < 0 /\ a < I32Min - b

\* i32::wrapping_add: a + b modulo 2^32
WrapAdd(a, b) ==
    IF ~Overflows(a, b) THEN a + b
    ELSE IF b > 0 THEN ((a - I32Max) - 1) + ((b - I32Max) - 1)
    ELSE ((a + I32Max) + 1) + ((b + I32Max) + 1)

\* ------------------------------------------------------------------ Graph
\* Graph::add_node
AddNodeMap(ns, node) == MapInsert(ns, node.id, node)

AddEdgeNoReverse(es, edge) == EntryPush(es, edge.node_a_id, edge)

\* Graph::add_edge
AddEdgeMap(es, edge) ==
    LET reverse_edge == Edge(edge.node_b_id, edge.node_a_id, edge.weight)
    IN  EntryPush(EntryPush(es, edge.node_a_id, edge),
                  reverse_edge.node_a_id, reverse_edge)

\* number of add_edge calls that built the adjacency map (each pushes two entries)
RECURSIVE SumLen(_, _)
SumLen(es, S) ==
    IF S = {} THEN 0
    ELSE LET k == CHOOSE x \in S : TRUE IN Len(es[k]) + SumLen(es, S \ {k})
EdgeCalls == SumLen(edges, DOMAIN edges) \div 2

Quiet == pc \in {"idle", "returned"}

ClearQuery ==
    /\ pc' = "idle"
    /\ alg' = "none"
    /\ from_node_id' = 0
    /\ to_node_id' = 0
    /\ result' = 0
    /\ UNCHANGED locals

add_node(node) ==
    /\ Quiet
    /\ nodes' = AddNodeMap(nodes, node)
    /\ UNCHANGED <<edges, overflow_checks>>
    /\ ClearQuery

add_edge(edge) ==
    /\ Quiet
    /\ EdgeCalls < MaxEdges
    /\ edges' = AddEdgeMap(edges, edge)
    /\ UNCHANGED <<nodes, overflow_checks>>
    /\ ClearQuery

\* ----------------------------------------------------------- bellman_ford
\* the outer loop left out: a single pass over a non-empty graph
BfSinglePass == IF DOMAIN nodes = {} THEN 0 ELSE 1

\* self.nodes.len()
BfPassCount == Cardinality(DOMAIN nodes)

\* the enumerations self.nodes.keys() may yield
KeyOrders ==
    {p \in [1..Cardinality(DOMAIN nodes) -> DOMAIN nodes] :
        \A i, j \in DOMAIN p : i # j => p[i] # p[j]}

\* the (node_id, edge) pairs one pass visits, in order: for each key that has
\* an adjacency entry, its edges
RECURSIVE PassWork(_, _)
PassWork(ks, i) ==
    IF i > Len(ks) THEN <<>>
    ELSE LET node_id == ks[i]
             here == IF node_id \in DOMAIN edges
                     THEN [k \in 1..Len(edges[node_id]) |->
                              [node_id |-> node_id, edge |-> edges[node_id][k]]]
                     ELSE <<>>
         IN  here \o PassWork(ks, i + 1)

NewDistanceWrapping(dist, node_id, weight) ==
    IF node_id \in DOMAIN dist THEN WrapAdd(dist[node_id], weight) ELSE I32Max

\* distances.get(node_id).and_then(|d| d.checked_add(edge.weight)).unwrap_or(i32::MAX)
NewDistance(dist, node_id, weight) ==
    IF node_id \in DOMAIN dist /\ ~Overflows(dist[node_id], weight)
    THEN dist[node_id] + weight
    ELSE I32Max

\* the body of `for edge in edges`
BfRelax(dist, node_id, edge) ==
    LET new_distance == NewDistance(dist, node_id, edge.weight)
        current_distance == MapGetOr(dist, edge.node_b_id, I32Max)
    IN  IF new_distance < current_distance
        THEN MapInsert(dist, edge.node_b_id, new_distance)
        ELSE dist

bellman_ford(f, t) ==
    /\ Quiet
    /\ pc' = "running"
    /\ alg' = "bellman_ford"
    /\ from_node_id' = f
    /\ to_node_id' = t
    /\ distances' = MapInsert(EmptyMap, f, 0)
    /\ walk' = MapInsert(EmptyMap, f, <<>>)
    /\ \E ks \in KeyOrders :
          /\ keys' = ks
          /\ pass' = IF Len(PassWork(ks, 1)) = 0 THEN BfPassCount ELSE 0
    /\ pos' = 1
    /\ result' = 0
    /\ UNCHANGED <<nodes, edges, overflow_checks, heap, pops>>

bellman_ford_relax ==
    /\ pc = "running" /\ alg = "bellman_ford"
    /\ pass < BfPassCount
    /\ LET work == PassWork(keys, 1)
           item == work[pos]
           dist == BfRelax(distances, item.node_id, item.edge)
       IN  /\ distances' = dist
           /\ walk' = IF dist # distances
                      THEN MapInsert(walk, item.edge.node_b_id,
                                     Append(walk[item.node_id], item.edge))
                      ELSE walk
           /\ IF pos < Len(work)
              THEN pos' = pos + 1 /\ pass' = pass
              ELSE pos' = 1 /\ pass' = pass + 1
    /\ UNCHANGED <<nodes, edges, overflow_checks, pc, alg, from_node_id,
                   to_node_id, keys, heap, pops, result>>

bellman_ford_return ==
    /\ pc = "running" /\ alg = "bellman_ford"
    /\ pass >= BfPassCount
    /\ result' = MapGetOr(distances, to_node_id, I32Max)
    /\ pc' = "returned"
    /\ distances' = EmptyMap
    /\ walk' = EmptyMap
    /\ keys' = <<>>
    /\ pass' = 0
    /\ pos' = 1
    /\ UNCHANGED <<nodes, edges, overflow_checks, alg, from_node_id,
                   to_node_id, heap, pops>>

\* the whole of bellman_ford as a function of its arguments and the key order
RECURSIVE BfFold(_, _, _)
BfFold(dist, work, k) ==
    IF k > Len(work) THEN dist
    ELSE BfFold(BfRelax(dist, work[k].node_id, work[k].edge), work, k + 1)

RECURSIVE BfPasses(_, _, _)
BfPasses(dist, work, n) ==
    IF n = 0 THEN dist ELSE BfPasses(BfFold(dist, work, 1), work, n - 1)

BellmanFordValue(f, t, ks) ==
    MapGetOr(BfPasses(MapInsert(EmptyMap, f, 0), PassWork(ks, 1), BfPassCount),
             t, I32Max)

\* ------------------------------------------------------ kkomatsu_dijkstra
UnknownFromOnly(f, t) == f \notin DOMAIN nodes

\* !self.nodes.contains_key(&from_node_id) || !self.nodes.contains_key(&to_node_id)
UnknownNode(f, t) == f \notin DOMAIN nodes \/ t \notin DOMAIN nodes

\* indices heap.pop() may take: an entry of least cost (Ord for State is
\* reversed on cost alone; which of several least entries comes first is the
\* heap's business)
PopChoices(h) ==
    {i \in 1..Len(h) : \A j \in 1..Len(h) : h[i].cost <= h[j].cost}

RemoveAt(s, i) == SubSeq(s, 1, i - 1) \o SubSeq(s, i + 1, Len(s))

\* `for edge in edges` of kkomatsu_dijkstra, from edge k on; st carries the
\* distances, the heap, and whether `cost + edge.weight` has panicked
RECURSIVE DjExpand(_, _, _, _)
DjExpand(st, cost, es, k) ==
    IF st.panicked \/ k > Len(es) THEN st
    ELSE LET edge == es[k]
         IN  IF Overflows(cost, edge.weight) /\ overflow_checks
             THEN [st EXCEPT !.panicked = TRUE]
             ELSE LET next_cost == WrapAdd(cost, edge.weight)
                      next_position == edge.node_b_id
                  IN  IF next_cost < MapGetOr(st.distances, next_position, I32Max)
                      THEN DjExpand(
                             [st EXCEPT
                                !.heap = Append(@, State(next_cost, next_position)),
                                !.distances = MapInsert(@, next_position, next_cost)],
                             cost, es, k + 1)
                      ELSE DjExpand(st, cost, es, k + 1)

\* one iteration of the while loop, popping heap entry i
DjBody(dist, h, i) ==
    LET cost == h[i].cost
        position == h[i].position
        st == [distances |-> dist, heap |-> RemoveAt(h, i), panicked |-> FALSE]
    IN  IF position \in DOMAIN dist /\ cost > dist[position] THEN st
        ELSE IF position \in DOMAIN edges
             THEN DjExpand(st, cost, edges[position], 1)
             ELSE st

kkomatsu_dijkstra(f, t) ==
    /\ Quiet
    /\ alg' = "kkomatsu_dijkstra"
    /\ from_node_id' = f
    /\ to_node_id' = t
    /\ IF UnknownNode(f, t)
       THEN /\ pc' = "returned"
            /\ result' = I32Max
            /\ UNCHANGED <<distances, heap>>
       ELSE /\ pc' = "running"
            /\ result' = 0
            /\ distances' = MapInsert(EmptyMap, f, 0)
            /\ heap' = <<State(0, f)>>
    /\ UNCHANGED <<nodes, edges, overflow_checks, keys, pass, pos, pops, walk>>

kkomatsu_dijkstra_pop ==
    /\ pc = "running" /\ alg = "kkomatsu_dijkstra"
    /\ heap # <<>>
    /\ pops < MaxPops
    /\ \E i \in PopChoices(heap) :
          LET st == DjBody(distances, heap, i)
          IN  IF st.panicked
              THEN /\ pc' = "panicked"
                   /\ distances' = EmptyMap
                   /\ heap' = <<>>
                   /\ pops' = 0
              ELSE /\ pc' = pc
                   /\ distances' = st.distances
                   /\ heap' = st.heap
                   /\ pops' = pops + 1
    /\ UNCHANGED <<nodes, edges, overflow_checks, alg, from_node_id, to_node_id,
                   keys, pass, pos, walk, result>>

kkomatsu_dijkstra_return ==
    /\ pc = "running" /\ alg = "kkomatsu_dijkstra"
    /\ heap = <<>>
    /\ result' = MapGetOr(distances, to_node_id, I32Max)
    /\ pc' = "returned"
    /\ distances' = EmptyMap
    /\ pops' = 0
    /\ UNCHANGED <<nodes, edges, overflow_checks, alg, from_node_id, to_node_id,
                   keys, pass, pos, heap, walk>>

\* ---------------------------------------------------------- specifications
Init ==
    /\ nodes = EmptyMap
    /\ edges = EmptyMap
    /\ overflow_checks \in BOOLEAN
    /\ pc = "idle"
    /\ alg = "none"
    /\ from_node_id = 0
    /\ to_node_id = 0
    /\ distances = EmptyMap
    /\ keys = <<>>
    /\ pass = 0
    /\ pos = 1
    /\ heap = <<>>
    /\ pops = 0
    /\ walk = EmptyMap
    /\ result = 0

Next ==
    \/ \E id \in Ids : add_node(Node(id, 0, 0))
    \/ \E a, b \in Ids, w \in Weights : add_edge(Edge(a, b, w))
    \/ \E f, t \in Ids : bellman_ford(f, t)
    \/ bellman_ford_relax
    \/ bellman_ford_return
    \/ \E f, t \in Ids : kkomatsu_dijkstra(f, t)
    \/ kkomatsu_dijkstra_pop
    \/ kkomatsu_dijkstra_return

Spec == Init /\ [][Next]_vars

\* bellman_ford.rs alone: its Graph and bellman_ford
NextBellmanFord ==
    \/ \E id \in Ids : add_node(Node(id, 0, 0))
    \/ \E a, b \in Ids, w \in Weights : add_edge(Edge(a, b, w))
    \/ \E f, t \in Ids : bellman_ford(f, t)
    \/ bellman_ford_relax
    \/ bellman_ford_return

SpecBellmanFord == Init /\ [][NextBellmanFord]_vars

\* dijkstra.rs alone: its Graph and kkomatsu_dijkstra
NextDijkstra ==
    \/ \E id \in Ids : add_node(Node(id, 0, 0))
    \/ \E a, b \in Ids, w \in Weights : add_edge(Edge(a, b, w))
    \/ \E f, t \in Ids : kkomatsu_dijkstra(f, t)
    \/ kkomatsu_dijkstra_pop
    \/ kkomatsu_dijkstra_return

SpecDijkstra == Init /\ [][NextDijkstra]_vars

\* a call that has started runs on: the function is synchronous and nothing
\* suspends it
FairSpecDijkstra ==
    /\ SpecDijkstra
    /\ WF_vars(kkomatsu_dijkstra_pop)
    /\ WF_vars(kkomatsu_dijkstra_return)

\* the Graph alone, nodes with every payload
NextGraph ==
    \/ \E id \in Ids, x, y \in Coords : add_node(Node(id, x, y))
    \/ \E a, b \in Ids, w \in Weights : add_edge(Edge(a, b, w))

SpecGraph == Init /\ [][NextGraph]_vars

\* ------------------------------------------------- reference definitions
\* what the claims speak of: paths of stored connections and their weights

NonNegWeights ==
    \A k \in DOMAIN edges : \A i \in 1..Len(edges[k]) : edges[k][i].weight >= 0

\* every identifier a connection mentions is a registered point (add_edge
\* stores under both endpoints, so the keys of edges are all the endpoints)
EndpointsRegistered == DOMAIN edges \subseteq DOMAIN nodes

StoredWeights(a, b) ==
    IF a \in DOMAIN edges
    THEN {edges[a][i].weight : i \in {j \in 1..Len(edges[a]) : edges[a][j].node_b_id = b}}
    ELSE {}

\* sequences of distinct identifiers, each joined to the next by a stored connection
Paths(s, d) ==
    {p \in UNION {[1..n -> Ids] : n \in 1..MaxId} :
        /\ p[1] = s
        /\ p[Len(p)] = d
        /\ \A i, j \in DOMAIN p : i # j => p[i] # p[j]
        /\ \A i \in 1..(Len(p) - 1) : StoredWeights(p[i], p[i + 1]) # {}}

HasPath(s, d) == Paths(s, d) # {}

Least(S) == CHOOSE v \in S : \A u \in S : v <= u

\* sum of nonnegative values, held at i32::MAX
SatAdd(a, b) == IF a > I32Max - b THEN I32Max ELSE a + b

RECURSIVE PathCost(_, _)
PathCost(p, i) ==
    IF i >= Len(p) THEN 0
    ELSE SatAdd(Least(StoredWeights(p[i], p[i + 1])), PathCost(p, i + 1))

\* least weight of a path from s to d (nonnegative weights), i32::MAX when
\* there is none or when the least weight is i32::MAX or more
ShortestDistance(s, d) ==
    IF HasPath(s, d) THEN Least({PathCost(p, 1) : p \in Paths(s, d)}) ELSE I32Max

\* the outcomes kkomatsu_dijkstra(f, t) can have on the current graph
RECURSIVE DjRun(_, _, _, _)
DjRun(dist, h, t, fuel) ==
    IF h = <<>> THEN {[returned |-> TRUE, value |-> MapGetOr(dist, t, I32Max)]}
    ELSE IF fuel = 0 THEN {}
    ELSE UNION {LET st == DjBody(dist, h, i)
                IN  IF st.panicked THEN {[returned |-> FALSE, value |-> 0]}
                    ELSE DjRun(st.distances, st.heap, t, fuel - 1)
                : i \in PopChoices(h)}

DijkstraOutcomes(f, t) ==
    IF UnknownNode(f, t) THEN {[returned |-> TRUE, value |-> I32Max]}
    ELSE DjRun(MapInsert(EmptyMap, f, 0), <<State(0, f)>>, t, MaxPops)

Returned(a) == pc = "returned" /\ alg = a
Running(a) == pc = "running" /\ alg = a

\* ------------------------------------------------------------------ claims

\* C1 (cross-validation), on graphs whose weights are all nonnegative and
\* whose connection endpoints are all registered points: when
\* kkomatsu_dijkstra(s, d) returns a finite distance and bellman_ford(s, d),
\* under whatever key order, returns a finite distance, the two are equal.
C1_CrossValidation ==
    (Returned("kkomatsu_dijkstra") /\ NonNegWeights /\ EndpointsRegistered
            /\ result # I32Max) =>
        \A ks \in KeyOrders :
            LET b == BellmanFordValue(from_node_id, to_node_id, ks)
            IN  b # I32Max => b = result

\* C2 (symmetry), on graphs whose weights are all nonnegative and whose
\* connection endpoints are all registered points: a query that has returned
\* distance(s, d) agrees with distance(d, s) on the same graph, for
\* bellman_ford (any key order) and for kkomatsu_dijkstra (which must return,
\* and return the same value).
C2_Symmetry ==
    (NonNegWeights /\ EndpointsRegistered) =>
        /\ Returned("bellman_ford") =>
              \A ks \in KeyOrders :
                  BellmanFordValue(to_node_id, from_node_id, ks) = result
        /\ Returned("kkomatsu_dijkstra") =>
              \A o \in DijkstraOutcomes(to_node_id, from_node_id) :
                  o.returned /\ o.value = result

\* C3 as claimed: on every graph with nonnegative weights, bellman_ford
\* returns the least weight of a path of stored connections from source to
\* destination, whatever the key order.
C3_ShortestAllGraphs ==
    (Returned("bellman_ford") /\ NonNegWeights) =>
        result = ShortestDistance(from_node_id, to_node_id)

\* C3 as amended: on every graph with nonnegative weights whose connection
\* endpoints are all registered points, bellman_ford returns, after its
\* nodes.len() passes and whatever the key order, the least weight of a path
\* from source to destination, or i32::MAX when there is no path or the least
\* weight is i32::MAX or more.
C3_ShortestRegistered ==
    (Returned("bellman_ford") /\ NonNegWeights /\ EndpointsRegistered) =>
        result = ShortestDistance(from_node_id, to_node_id)

\* C3 witness: three registered points, a two-connection path and no direct
\* connection, and bellman_ford has returned its weight 2
C3_Witness ==
    /\ Returned("bellman_ford")
    /\ NonNegWeights /\ EndpointsRegistered
    /\ Cardinality(DOMAIN nodes) = 3
    /\ StoredWeights(from_node_id, to_node_id) = {}
    /\ from_node_id # to_node_id
    /\ result = 2

\* C4 (unreachable destinations), on graphs whose weights are all
\* nonnegative: a query whose destination no path of stored connections
\* reaches from the source ends by returning i32::MAX, and while it runs no
\* distance is recorded for a point no path reaches.
C4_Unreachable ==
    NonNegWeights =>
        /\ (pc \in {"returned", "panicked"} /\ ~HasPath(from_node_id, to_node_id)) =>
              (pc = "returned" /\ result = I32Max)
        /\ pc = "running" => \A v \in DOMAIN distances : HasPath(from_node_id, v)

\* C5 (self-distance), on graphs whose weights are all nonnegative: a query
\* from a registered point to itself ends by returning 0, and while a query
\* from a registered point runs, the distance recorded for its source is 0.
C5_SelfDistance ==
    NonNegWeights =>
        /\ (pc \in {"returned", "panicked"} /\ from_node_id = to_node_id
                /\ from_node_id \in DOMAIN nodes) =>
              (pc = "returned" /\ result = 0)
        /\ (pc = "running" /\ from_node_id \in DOMAIN nodes) =>
              distances[from_node_id] = 0

\* C6 (no failure), on graphs whose weights are all nonnegative: no query
\* panics, and no `cost + edge.weight` that kkomatsu_dijkstra is about to
\* compute leaves the i32 range.
C6_NoFailure ==
    NonNegWeights =>
        /\ pc # "panicked"
        /\ Running("kkomatsu_dijkstra") =>
              \A i \in PopChoices(heap) :
                  LET cost == heap[i].cost
                      position == heap[i].position
                  IN  (~(position \in DOMAIN distances /\ cost > distances[position])
                          /\ position \in DOMAIN edges) =>
                        \A k \in 1..Len(edges[position]) :
                            ~Overflows(cost, edges[position][k].weight)

\* C7 (precondition check): kkomatsu_dijkstra never enters its loop, nor
\* holds any distance or heap entry, with an unregistered source or
\* destination, and returns i32::MAX for them; bellman_ford from an
\* unregistered identifier to itself returns 0.
C7_Precondition ==
    /\ Running("kkomatsu_dijkstra") =>
          (from_node_id \in DOMAIN nodes /\ to_node_id \in DOMAIN nodes)
    /\ (Returned("kkomatsu_dijkstra")
            /\ (from_node_id \notin DOMAIN nodes \/ to_node_id \notin DOMAIN nodes)) =>
          result = I32Max
    /\ (Returned("bellman_ford") /\ from_node_id = to_node_id
            /\ from_node_id \notin DOMAIN nodes) =>
          result = 0

\* C7 witness: kkomatsu_dijkstra has returned i32::MAX for an unregistered
\* destination that stored connections join to the registered source
C7_Witness ==
    /\ Returned("kkomatsu_dijkstra")
    /\ from_node_id \in DOMAIN nodes
    /\ to_node_id \notin DOMAIN nodes
    /\ StoredWeights(from_node_id, to_node_id) # {}
    /\ result = I32Max

Count(seq, e) == Cardinality({i \in 1..Len(seq) : seq[i] = e})

AdjacencySymmetric ==
    \A a, b \in Ids, w \in Weights :
        Count(MapGetOr(edges, a, <<>>), Edge(a, b, w))
            = Count(MapGetOr(edges, b, <<>>), Edge(b, a, w))

\* C8 (adjacency symmetry): in every state the entries (a->b, w) under a are
\* as many as the entries (b->a, w) under b, every entry is stored under its
\* own node_a_id, a step that changes the adjacency map leaves the point map
\* alone, and a step that changes the point map leaves the adjacency map alone.
C8_AdjacencySymmetry ==
    /\ [](/\ AdjacencySymmetric
          /\ \A k \in DOMAIN edges : \A i \in 1..Len(edges[k]) :
                 edges[k][i].node_a_id = k)
    /\ [][/\ edges' # edges => nodes' = nodes
          /\ nodes' # nodes => edges' = edges]_vars

\* C8 witness: a self-loop and a connection to an unregistered identifier
\* are stored, beside a registered point
C8_Witness ==
    /\ \E a \in DOMAIN edges : StoredWeights(a, a) # {}
    /\ \E a \in DOMAIN nodes, b \in Ids \ DOMAIN nodes : StoredWeights(a, b) # {}

Limb == 2 ^ 16

RECURSIVE SumHigh(_, _)
SumHigh(w, i) == IF i > Len(w) THEN 0 ELSE (w[i].weight \div Limb) + SumHigh(w, i + 1)

RECURSIVE SumLow(_, _)
SumLow(w, i) == IF i > Len(w) THEN 0 ELSE (w[i].weight % Limb) + SumLow(w, i + 1)

\* the exact sum of the weights of w, in unbounded integers, is d (the sum
\* is kept as high * 2^16 + low so that it never leaves TLC's own range)
WalkSumIs(w, d) ==
    /\ SumHigh(w, 1) + (SumLow(w, 1) \div Limb) = d \div Limb
    /\ SumLow(w, 1) % Limb = d % Limb

\* w is a walk of stored connections from s to v
IsWalk(w, s, v) ==
    /\ IF Len(w) = 0 THEN v = s
       ELSE w[1].node_a_id = s /\ w[Len(w)].node_b_id = v
    /\ \A i \in 1..Len(w) :
          /\ w[i].node_a_id \in DOMAIN edges
          /\ \E k \in 1..Len(edges[w[i].node_a_id]) : edges[w[i].node_a_id][k] = w[i]
    /\ \A i \in 1..(Len(w) - 1) : w[i].node_b_id = w[i + 1].node_a_id

\* C9 (overflow guard): at every step of bellman_ford every recorded
\* distance is the exact, unwrapped sum of the weights of a walk of stored
\* connections from the source to that point.
C9_ExactDistances ==
    Running("bellman_ford") =>
        \A v \in DOMAIN distances :
            /\ v \in DOMAIN walk
            /\ IsWalk(walk[v], from_node_id, v)
            /\ WalkSumIs(walk[v], distances[v])

\* the (node, edge) pair bellman_ford relaxed in its last step
LastItem ==
    LET work == PassWork(keys, 1)
    IN  IF pos > 1 THEN work[pos - 1] ELSE work[Len(work)]

\* C9 witness: the connection just relaxed leaves a point whose recorded
\* distance plus the weight is below i32::MIN, and the map is unchanged by it
C9_Witness ==
    /\ Running("bellman_ford")
    /\ Len(PassWork(keys, 1)) > 0
    /\ pass + pos > 1
    /\ LastItem.node_id \in DOMAIN distances
    /\ LastItem.node_id # LastItem.edge.node_b_id
    /\ LastItem.edge.weight < 0
    /\ Overflows(distances[LastItem.node_id], LastItem.edge.weight)

\* C10 (termination), on graphs whose weights are all nonnegative: every
\* started kkomatsu_dijkstra call eventually finds its heap empty and returns.
C10_Terminates ==
    (Running("kkomatsu_dijkstra") /\ NonNegWeights) ~> Returned("kkomatsu_dijkstra")

====
